---- MODULE Spec2Model ----
(***************************************************************************)
(* Model of the sign-language translator component (src/src/App.jsx):      *)
(* the Frame Encoder, the Sequence Normalizer, the Batch and Live          *)
(* extractors, the recording/session lifecycle and the translation         *)
(* orchestrator.                                                           *)
(*                                                                         *)
(* Arrays of points are held run-length encoded: a sequence of runs        *)
(* [n |-> count, p |-> <<x, y, z>>].  The encoding is lossless; flat()     *)
(* expands it, so the number of points of a frame and the width of a row   *)
(* are computed from what the code builds.                                 *)
(* The session holds its long arrays of frames (the live accumulator, the  *)
(* frames of a request) in the same encoding; the normalizer works on the  *)
(* arrays themselves.                                                      *)
(***************************************************************************)
EXTENDS Integers, Sequences, FiniteSets, TLC

----------------------------------------------------------------------------
(* Program constants                                                        *)

MAX_SEQ_LEN == 190

TARGET_FPS == 25

NUM_KEYPOINTS == 21

PAD_POINTS == 42

PAD_VALUE == -10
DEFAULT_RECORD_MAX_SECONDS == 8

----------------------------------------------------------------------------
(* Bounds of the model                                                      *)

\* longest raw sequence the normalizer is applied to is MAX_SEQ_LEN + MaxExtraLen
MaxExtraLen == 3

\* user actions (clicks, file selections, teardown) in one run; recordings,
\* camera acquisitions, translations and their failures all start from one
MaxUserActions == 3

\* detector submissions of the sampling timers in one run
MaxSamples == 1

\* frames of the loaded clip the batch extractor walks through
MaxBatchFrames == 1

\* ticks of the countdown of one recording that the run follows
MaxTicks == 1

\* frames the batch extractor walks through in the runs that follow it alone
MaxClipFrames == 2

\* hands in one detection result the encoder is applied to on its own
MaxHands == 3

\* lengths of the non-JSON error bodies the backend answers with
BodyLengths == {3, 101}

----------------------------------------------------------------------------
(* Small helpers                                                            *)

Max(a, b) == IF a >= b THEN a ELSE b

Min(a, b) == IF a <= b THEN a ELSE b

RECURSIVE rle(_)
\* run-length encoding of a sequence of points
rle(points) ==
    IF points = <<>> THEN <<>>
    ELSE LET rest == rle(Tail(points)) IN
         IF rest # <<>> /\ Head(rest).p = Head(points)
         THEN <<[n |-> Head(rest).n + 1, p |-> Head(points)]>> \o Tail(rest)
         ELSE <<[n |-> 1, p |-> Head(points)]>> \o rest

\* [...a, ...b] on run-length encoded arrays
spread(a, b) ==
    IF a # <<>> /\ b # <<>> /\ a[Len(a)].p = b[1].p
    THEN SubSeq(a, 1, Len(a) - 1)
         \o <<[n |-> a[Len(a)].n + b[1].n, p |-> b[1].p]>>
         \o Tail(b)
    ELSE a \o b

RECURSIVE numPoints(_)
\* array.length of a run-length encoded array
numPoints(a) == IF a = <<>> THEN 0 ELSE Head(a).n + numPoints(Tail(a))

\* The run-length encoding of a long array (as rle, without recursion): a
\* run starts where an element differs from the one before it.
packed(array) ==
    LET starts == {i \in 1..Len(array) : i = 1 \/ array[i] # array[i - 1]}
        start(j) == CHOOSE i \in starts : Cardinality({k \in starts : k < i}) = j - 1
        end(j) == IF j = Cardinality(starts) THEN Len(array) + 1 ELSE start(j + 1)
    IN  [j \in 1..Cardinality(starts) |->
            [n |-> end(j) - start(j), p |-> array[start(j)]]]

\* The array a run-length encoding stands for
unpacked(a) ==
    [i \in 1..numPoints(a) |->
        a[CHOOSE j \in 1..Len(a) :
              /\ numPoints(SubSeq(a, 1, j - 1)) < i
              /\ i <= numPoints(SubSeq(a, 1, j))].p]

----------------------------------------------------------------------------
(* Frame Encoder                                                            *)

\* a slot that starts as 21 pad points
zeroHandPadValue ==
    rle([j \in 1..NUM_KEYPOINTS |-> <<PAD_VALUE, PAD_VALUE, PAD_VALUE>>])

\* new Array(21).fill(null).map(() => [0, 0, 0])
zeroHand == rle([j \in 1..NUM_KEYPOINTS |-> <<0, 0, 0>>])

\* handLandmarks.map((lm) => [lm.x, lm.y, lm.z])
landmarkArray(handLandmarks) ==
    rle([j \in 1..Len(handLandmarks) |->
            <<handLandmarks[j].x, handLandmarks[j].y, handLandmarks[j].z>>])

RECURSIVE extractLoop(_, _, _, _)
\* the for loop of extractTwoHandLandmarks, from index i (1-based) on
extractLoop(handsResults, i, leftHand, rightHand) ==
    IF i > Len(handsResults.multiHandLandmarks)
    THEN spread(leftHand, rightHand)
    ELSE LET handLabel == handsResults.multiHandedness[i].label
             arr == landmarkArray(handsResults.multiHandLandmarks[i])
         IN  IF handLabel = "Left"
             THEN extractLoop(handsResults, i + 1, arr, rightHand)
             ELSE IF handLabel = "Right"
                  THEN extractLoop(handsResults, i + 1, leftHand, arr)
                  ELSE extractLoop(handsResults, i + 1, leftHand, rightHand)

\* a property the result object does not carry reads as undefined
defined(handsResults, property) == property \in DOMAIN handsResults

\* the result with its hands in reverse order
reversedHands(handsResults) ==
    LET n == Len(handsResults.multiHandLandmarks) IN
    [multiHandLandmarks |->
         [i \in 1..n |-> handsResults.multiHandLandmarks[n + 1 - i]],
     multiHandedness |->
         [i \in 1..n |-> handsResults.multiHandedness[n + 1 - i]]]

\* an encoder that fills the slots by position: the first hand detected
\* goes to the left slot, the second to the right slot
extractTwoHandLandmarksByOrder(handsResults) ==
    IF defined(handsResults, "multiHandLandmarks")
       /\ defined(handsResults, "multiHandedness")
    THEN LET hand(i) ==
                 IF i <= Len(handsResults.multiHandLandmarks)
                 THEN landmarkArray(handsResults.multiHandLandmarks[i])
                 ELSE zeroHand
         IN  spread(hand(1), hand(2))
    ELSE spread(zeroHand, zeroHand)

\* an encoder in which the first hand of a label keeps the slot (the loop
\* walks the hands from the last to the first)
extractTwoHandLandmarksFirstWins(handsResults) ==
    IF defined(handsResults, "multiHandLandmarks")
       /\ defined(handsResults, "multiHandedness")
    THEN extractLoop(reversedHands(handsResults), 1, zeroHand, zeroHand)
    ELSE spread(zeroHand, zeroHand)

extractTwoHandLandmarks(handsResults) ==
    IF defined(handsResults, "multiHandLandmarks")
       /\ defined(handsResults, "multiHandedness")
    THEN extractLoop(handsResults, 1, zeroHand, zeroHand)
    ELSE spread(zeroHand, zeroHand)

\* One detected hand: 21 keypoints carrying the tag of the image they were
\* detected in (src = the recording or clip, k = the sample index).
HandOf(src, k) == [j \in 1..NUM_KEYPOINTS |-> [x |-> src, y |-> k, z |-> 1]]

\* What the pose detector reports for sample k of source src: one hand,
\* labelled Left for odd k and Right for even k.
DetectionOf(src, k) ==
    [multiHandLandmarks |-> <<HandOf(src, k)>>,
     multiHandedness |-> <<[label |-> IF k % 2 = 1 THEN "Left" ELSE "Right"]>>]

\* The frame the detector callback appends for sample k of source src.
FrameOf(src, k) == extractTwoHandLandmarks(DetectionOf(src, k))

\* The sources of the detected hands of a frame (none for a pad frame)
SourcesOf(frame) == {frame[i].p[1] : i \in 1..Len(frame)} \cap (1..1000)

----------------------------------------------------------------------------
(* Sequence Normalizer                                                      *)

\* padFrame built with one hand's worth of points
padFrameOneHand == rle([j \in 1..NUM_KEYPOINTS |-> <<PAD_VALUE, PAD_VALUE, PAD_VALUE>>])

\* Array.from({ length: 42 }, () => [-10, -10, -10])
padFrame == rle([j \in 1..PAD_POINTS |-> <<PAD_VALUE, PAD_VALUE, PAD_VALUE>>])

\* truncateIdx dividing by targetLen instead of targetLen - 1
truncateIdxByLen(i, N, targetLen) == (i * (N - 1)) \div Max(targetLen, 1)

\* truncateIdx with N - 1 and targetLen - 1 taken for one another
truncateIdxSwapped(i, N, targetLen) == (i * (targetLen - 1)) \div Max(N - 1, 1)

\* Math.floor((i * (N - 1)) / Math.max(targetLen - 1, 1)), i 0-based (the
\* quotient of two integers this small is floored exactly in a double)
truncateIdx(i, N, targetLen) == (i * (N - 1)) \div Max(targetLen - 1, 1)

uniformTruncate(sequence, targetLen) ==
    LET N == Len(sequence) IN
    IF N <= targetLen THEN sequence
    ELSE IF targetLen <= 0 THEN <<>>
    ELSE [i \in 1..targetLen |-> sequence[truncateIdx(i - 1, N, targetLen) + 1]]

\* pushPadding with unshift in place of push
unshiftPadding(landmarksList, padLen) ==
    [p \in 1..padLen |-> padFrame] \o landmarksList

\* for (p = 0; p < padLen; p++) landmarksList.push(padFrame)
pushPadding(landmarksList, padLen) ==
    landmarksList \o [p \in 1..padLen |-> padFrame]

\* normalizeBatch padding also a sequence that has the target length
normalizeBatchPadsFull(landmarksList, maxSeqLen) ==
    IF Len(landmarksList) > maxSeqLen
    THEN uniformTruncate(landmarksList, maxSeqLen)
    ELSE pushPadding(landmarksList, Max(maxSeqLen - Len(landmarksList), 1))

\* extractLandmarksFromVideo: truncate or pad the local landmarksList.
normalizeBatch(landmarksList, maxSeqLen) ==
    IF Len(landmarksList) > maxSeqLen
    THEN uniformTruncate(landmarksList, maxSeqLen)
    ELSE IF Len(landmarksList) < maxSeqLen
         THEN pushPadding(landmarksList, maxSeqLen - Len(landmarksList))
         ELSE landmarksList

\* handleTranslate, live path: landmarksList starts as an alias of
\* realtimeLandmarksRef.current.  Truncation rebinds landmarksList to a new
\* array; padding pushes into the aliased array, i.e. into the accumulator.
\* Returns the list that is sent and the accumulator afterwards.
normalizeLive(accumulator, maxSeqLen) ==
    IF Len(accumulator) > maxSeqLen
    THEN [landmarksList |-> uniformTruncate(accumulator, maxSeqLen),
          accumulator |-> accumulator]
    ELSE IF Len(accumulator) < maxSeqLen
         THEN LET padded == pushPadding(accumulator, maxSeqLen - Len(accumulator))
              IN  [landmarksList |-> padded, accumulator |-> padded]
         ELSE [landmarksList |-> accumulator, accumulator |-> accumulator]

\* n copies of point p, concatenated
repeatPoint(n, p) == [i \in 1..(n * Len(p)) |-> p[((i - 1) % Len(p)) + 1]]

RECURSIVE flat(_)
\* frame.flat(): one level of flattening, the points' numbers in one row
flat(frame) ==
    IF frame = <<>> THEN <<>>
    ELSE repeatPoint(Head(frame).n, Head(frame).p) \o flat(Tail(frame))

\* landmarksList.map((frame) => frame.flat())
flatLandmarks(landmarksList) ==
    [i \in 1..Len(landmarksList) |-> flat(landmarksList[i])]

----------------------------------------------------------------------------
(* State                                                                    *)

VARIABLES
    mounted,            \* the component is mounted
    inputMode,          \* "record" or "upload"
    file,               \* the selected clip, NoFile for null
    videoSrc,           \* what the hidden processing video (videoRef) shows
    error,              \* error state: NoError for null, else a message
    currentStage,       \* the stage label shown on the Translate button
    progress,           \* the percentage shown on the progress bar
    results,            \* NoResults for null, else the result shown
    extractionLog,      \* the diagnostic log, a sequence of entries
    translationHistory, \* the history list in memory, newest first
    storage,            \* localStorage["translationHistory"], <<>> when absent
    now,                \* the latest reading of the clock (Date.now())
    isProcessing,
    isRecording,
    isCameraActive,
    streams,            \* streams[i] = TRUE iff acquired stream i has live tracks
    streamRef,          \* streamRef.current: 0 for null, else a stream
    camPending,         \* startCamera calls in progress, by caller and phase
    hands,              \* live detector instances: created, initializing, closed
    mediapipeHandsRef,  \* mediapipeHandsRef.current: 0 for null, else an instance
    recorders,          \* the MediaRecorder instances created so far
    mediaRecorderRef,   \* mediaRecorderRef.current: 0 for null
    stopEvents,         \* recorders whose stop event is queued by stop()
    countdownTimerRef,  \* 0, or the recording whose countdown interval runs
    recordingTimeoutRef,\* 0, or the recording whose timeout id is stored
    timeoutPending,     \* 0, or the recording whose auto-stop timeout is pending
    remainingSeconds,   \* the countdown shown on the recording badge
    liveIntervals,      \* sampling intervals that are running (by recording)
    landmarkExtractionIntervalRef,
    samples,            \* detector submissions made by the sampling intervals
    inFlight,           \* submitted samples whose detection has not called back
    realtimeLandmarks,  \* realtimeLandmarksRef.current, the live accumulator
                        \* (an array of frames, run-length encoded)
    translation,        \* the handleTranslate call in progress
    batch,              \* the extractLandmarksFromVideo run in progress
    requestFrames,      \* the frames of the request in flight (run-length
                        \* encoded here, each frame flattened on the wire)
    stopCalls,          \* stopRecording invocations, per recorder they acted on
    userStopped,        \* recordings the user stopped before their timeout fired
    userActions,        \* user actions so far
    submitted,          \* normalizer under test: body.landmarks, flattened
    rawSequence,        \* normalizer under test: the raw sequence
    targetLen,          \* normalizer under test: the target length
    normalized,         \* normalizer under test: the sequence sent
    renormalized,       \* normalizer under test: normalized once more
    normAccumulator,    \* normalizer under test: the accumulator afterwards
    normPc,             \* "session", "input", "live", "batch", "liveAgain",
                        \* "batchAgain"; encoder under test: "detection", "encoded"
    handsResults,       \* encoder under test: the detection result
    encoded             \* encoder under test: the frame it returns

uiVars == <<mounted, inputMode, file, videoSrc, error>>

camVars == <<streams, streamRef, camPending, isCameraActive>>

handsVars == <<hands, mediapipeHandsRef>>

recVars == <<recorders, mediaRecorderRef, stopEvents, isRecording>>

timerVars == <<countdownTimerRef, recordingTimeoutRef, timeoutPending,
              remainingSeconds>>

liveVars == <<liveIntervals, landmarkExtractionIntervalRef, samples, inFlight,
              realtimeLandmarks>>

transVars == <<isProcessing, translation, batch, requestFrames>>

ghostVars == <<stopCalls, userStopped>>

encVars == <<handsResults, encoded>>

normVars == <<rawSequence, targetLen, normalized, renormalized, normAccumulator,
              submitted, normPc, encVars>>

historyVars == <<translationHistory, storage, now>>

outVars == <<currentStage, progress, results, extractionLog, historyVars>>

vars == <<uiVars, camVars, handsVars, recVars, timerVars, liveVars, transVars,
          ghostVars, userActions, normVars, outVars>>

NoFile == <<>>

\* A message: a fixed text, then the characters taken from a response body,
\* then a fixed ending.  NoError stands for null.
Msg(text) == [prefix |-> text, chars |-> <<>>, suffix |-> ""]

NoError == Msg("")

NoResults == <<>>

\* An entry of the diagnostic log without and with a message in it
LogEntry(tag) == [tag |-> tag, message |-> NoError]

LogError(message) == [tag |-> "log_error_prefix", message |-> message]

UploadedFile == <<"upload", 1>>

RecordedFile(r) == <<"rec", r>>

\* No response body (the text is empty and is not JSON)
NoBody == [text |-> <<>>, json |-> FALSE, error |-> ""]

NoTranslation == [pc |-> "idle", inputMode |-> "none", path |-> "none",
                  clip |-> NoFile, liveSources |-> {}, stillRecording |-> FALSE,
                  response |-> NoBody]

NoBatch == [pc |-> "off", duration |-> 0, totalFrames |-> 0, i |-> 0,
            landmarksList |-> <<>>, closed |-> FALSE]

\* webcamVideoRef.current is set while the WebcamRecorder is rendered
webcamPresent == mounted /\ inputMode = "record"

\* useState setters do nothing once the component is unmounted
SetState(old, new) == IF mounted THEN new ELSE old

\* a user action within the budget
UserAction == /\ mounted
              /\ userActions < MaxUserActions
              /\ userActions' = userActions + 1

----------------------------------------------------------------------------
(* Initial state: the component has mounted in record mode and the         *)
(* inputMode effect has called startCamera.  (The second effect run of a   *)
(* development build under React.StrictMode is the cleanup and effect of   *)
(* an upload/record toggle, which ClickUpload and ClickRecord produce.)    *)

CallKinds == {"effect", "translate"} \X {"getUserMedia", "waitVideo"}

NoCamCalls == [k \in CallKinds |-> 0]

\* a caller invokes startCamera: the call waits for getUserMedia
callStartCamera(pending, caller) ==
    [pending EXCEPT ![<<caller, "getUserMedia">>] = @ + 1]

\* a pending call leaves its phase
leavePhase(pending, caller, phase) ==
    [pending EXCEPT ![<<caller, phase>>] = @ - 1]

SessionInit ==
    /\ mounted = TRUE
    /\ inputMode = "record"
    /\ file = NoFile
    /\ videoSrc = NoFile
    /\ error = NoError
    /\ currentStage = ""
    /\ progress = 0
    /\ results = NoResults
    /\ extractionLog = <<>>
    /\ translationHistory = <<>>
    /\ storage = <<>>
    /\ now = 0
    /\ isProcessing = FALSE
    /\ isRecording = FALSE
    /\ isCameraActive = FALSE
    /\ streams = <<>>
    /\ streamRef = 0
    /\ camPending = callStartCamera(NoCamCalls, "effect")
    /\ hands = [created |-> 0, initializing |-> 0, closed |-> 0]
    /\ mediapipeHandsRef = 0
    /\ recorders = <<>>
    /\ mediaRecorderRef = 0
    /\ stopEvents = {}
    /\ countdownTimerRef = 0
    /\ recordingTimeoutRef = 0
    /\ timeoutPending = 0
    /\ remainingSeconds = 0
    /\ liveIntervals = {}
    /\ landmarkExtractionIntervalRef = 0
    /\ samples = 0
    /\ inFlight = <<>>
    /\ realtimeLandmarks = <<>>
    /\ translation = NoTranslation
    /\ batch = NoBatch
    /\ requestFrames = <<>>
    /\ stopCalls = <<>>
    /\ userStopped = {}
    /\ userActions = 0

\* A result object without hands: the detector leaves both properties out
NoHandsResults == [image |-> "canvas"]

EncoderIdle ==
    /\ handsResults = NoHandsResults
    /\ encoded = <<>>

NormIdle ==
    /\ rawSequence = <<>>
    /\ targetLen = MAX_SEQ_LEN
    /\ normalized = <<>>
    /\ renormalized = <<>>
    /\ normAccumulator = <<>>
    /\ submitted = <<>>
    /\ normPc = "session"
    /\ EncoderIdle

Init == SessionInit /\ NormIdle

----------------------------------------------------------------------------
(* Camera                                                                   *)

\* streamRef.current.getTracks().forEach((track) => track.stop())
stoppedTracks ==
    IF streamRef # 0 THEN [streams EXCEPT ![streamRef] = FALSE] ELSE streams

stopCamera ==
    /\ streams' = stoppedTracks
    /\ isCameraActive' = SetState(isCameraActive, FALSE)

\* initializeRealtimeLandmarkExtraction up to its await: nothing when an
\* instance is stored, else a new Hands instance starts initializing.
initializeRealtimeLandmarkExtraction ==
    /\ hands' = IF mediapipeHandsRef # 0 THEN hands
                ELSE [hands EXCEPT !.created = @ + 1, !.initializing = @ + 1]
    /\ UNCHANGED mediapipeHandsRef

\* What follows startCamera in its caller: the inputMode effect goes on to
\* initialize the live detector, handleTranslate's finally block ends.
AfterStartCamera(caller) ==
    IF caller = "effect"
    THEN initializeRealtimeLandmarkExtraction
    ELSE UNCHANGED handsVars

\* getUserMedia resolves: the stream is stored; when the webcam element is
\* there waitForVideoRef returns at once and the call runs to its end.
CameraAcquired(caller) ==
    /\ camPending[<<caller, "getUserMedia">>] > 0
    /\ streams' = Append(streams, TRUE)
    /\ streamRef' = Len(streams) + 1
    /\ IF webcamPresent
       THEN /\ camPending' = leavePhase(camPending, caller, "getUserMedia")
            /\ isCameraActive' = TRUE
            /\ AfterStartCamera(caller)
       ELSE /\ camPending' = [leavePhase(camPending, caller, "getUserMedia")
                                 EXCEPT ![<<caller, "waitVideo">>] = @ + 1]
            /\ UNCHANGED <<isCameraActive, handsVars>>
    /\ UNCHANGED userActions
    /\ UNCHANGED <<uiVars, recVars, timerVars, liveVars, transVars, ghostVars, normVars, outVars>>

\* waitForVideoRef ends (element mounted or 2 s elapsed): setIsCameraActive(true)
CameraWaitDone(caller) ==
    /\ camPending[<<caller, "waitVideo">>] > 0
    /\ camPending' = leavePhase(camPending, caller, "waitVideo")
    /\ isCameraActive' = SetState(isCameraActive, TRUE)
    /\ AfterStartCamera(caller)
    /\ UNCHANGED <<streams, streamRef, userActions>>
    /\ UNCHANGED <<uiVars, recVars, timerVars, liveVars, transVars, ghostVars, normVars, outVars>>

\* A catch block of startCamera that goes on to setIsCameraActive(true)
startCameraCatchActivates ==
    /\ error' = SetState(error, Msg("camera"))
    /\ isCameraActive' = SetState(isCameraActive, TRUE)

\* The catch block of startCamera: setError, nothing else
startCameraCatch ==
    /\ error' = SetState(error, Msg("camera"))
    /\ UNCHANGED isCameraActive

\* getUserMedia rejects: the catch block runs and startCamera returns
CameraFailed(caller) ==
    /\ camPending[<<caller, "getUserMedia">>] > 0
    /\ camPending' = leavePhase(camPending, caller, "getUserMedia")
    /\ startCameraCatch
    /\ AfterStartCamera(caller)
    /\ UNCHANGED <<streams, streamRef, userActions>>
    /\ UNCHANGED <<mounted, inputMode, file, videoSrc>>
    /\ UNCHANGED <<recVars, timerVars, liveVars, transVars, ghostVars, normVars, outVars>>

\* hands.initialize() resolves: the instance is stored
HandsInitialized ==
    /\ hands.initializing > 0
    /\ hands' = [hands EXCEPT !.initializing = @ - 1]
    /\ mediapipeHandsRef' = hands.created - hands.initializing + 1
    /\ UNCHANGED <<uiVars, camVars, recVars, timerVars, liveVars, transVars,
                   ghostVars, userActions, normVars, outVars>>

\* hands.initialize() rejects: logged, nothing stored
HandsInitFailed ==
    /\ hands.initializing > 0
    /\ hands' = [hands EXCEPT !.initializing = @ - 1]
    /\ UNCHANGED <<mediapipeHandsRef, userActions>>
    /\ UNCHANGED <<uiVars, camVars, recVars, timerVars, liveVars, transVars,
                   ghostVars, normVars, outVars>>

----------------------------------------------------------------------------
(* Mode buttons, file picker, teardown                                      *)

\* resetState, apart from isRecording (set by the callers below)
resetState ==
    /\ file' = NoFile
    /\ error' = NoError
    /\ results' = NoResults
    /\ extractionLog' = <<>>
    /\ videoSrc' = NoFile

\* mode buttons that are not disabled and do not return while processing
modeButtonAlwaysEnabled == TRUE

\* disabled={isProcessingProp}, and onClick: if (isProcessingProp) return;
modeButtonEnabled == ~isProcessing

\* Upload button: resetState, stopCamera, setInputMode("upload"); when the
\* mode changes the inputMode effect's cleanup and body call stopCamera again.
ClickUpload ==
    /\ UserAction
    /\ modeButtonEnabled
    /\ resetState
    /\ isRecording' = FALSE
    /\ stopCamera
    /\ inputMode' = "upload"
    /\ UNCHANGED <<mounted, streamRef, camPending, handsVars>>
    /\ UNCHANGED <<recorders, mediaRecorderRef, stopEvents>>
    /\ UNCHANGED <<timerVars, liveVars, transVars, ghostVars, normVars>>
    /\ UNCHANGED <<currentStage, progress, historyVars>>

\* Record button: resetState, setInputMode("record"); when the mode changes
\* the effect's cleanup calls stopCamera and its body calls startCamera.
ClickRecord ==
    /\ UserAction
    /\ modeButtonEnabled
    /\ resetState
    /\ isRecording' = FALSE
    /\ inputMode' = "record"
    /\ IF inputMode = "upload"
       THEN /\ stopCamera
            /\ camPending' = callStartCamera(camPending, "effect")
       ELSE UNCHANGED <<streams, isCameraActive, camPending>>
    /\ UNCHANGED <<mounted, streamRef, handsVars>>
    /\ UNCHANGED <<recorders, mediaRecorderRef, stopEvents>>
    /\ UNCHANGED <<timerVars, liveVars, transVars, ghostVars, normVars>>
    /\ UNCHANGED <<currentStage, progress, historyVars>>

\* handleFileSelect with a video file
FileSelect ==
    /\ UserAction
    /\ ~isProcessing /\ inputMode = "upload"
    /\ file' = UploadedFile
    /\ videoSrc' = UploadedFile
    /\ error' = NoError
    /\ results' = NoResults
    /\ extractionLog' = <<>>
    /\ isRecording' = FALSE
    /\ UNCHANGED <<mounted, inputMode, camVars, handsVars>>
    /\ UNCHANGED <<recorders, mediaRecorderRef, stopEvents>>
    /\ UNCHANGED <<timerVars, liveVars, transVars, ghostVars, normVars>>
    /\ UNCHANGED <<currentStage, progress, historyVars>>

\* handleFileSelect with something that is not a video
FileSelectInvalid ==
    /\ UserAction
    /\ ~isProcessing /\ inputMode = "upload"
    /\ error' = Msg("invalidFile")
    /\ UNCHANGED <<mounted, inputMode, file, videoSrc>>
    /\ UNCHANGED <<camVars, handsVars, recVars, timerVars, liveVars, transVars,
                   ghostVars, normVars, outVars>>

\* Teardown: the inputMode effect's cleanup (stopCamera) and the timer
\* cleanup effect (clear the stored timers, close the stored detector).
Unmount ==
    /\ UserAction
    /\ mounted' = FALSE
    /\ streams' = stoppedTracks
    /\ countdownTimerRef' = 0
    /\ recordingTimeoutRef' = 0
    /\ timeoutPending' = IF recordingTimeoutRef # 0 /\ timeoutPending = recordingTimeoutRef
                         THEN 0 ELSE timeoutPending
    /\ UNCHANGED remainingSeconds
    /\ liveIntervals' = liveIntervals \ {landmarkExtractionIntervalRef}
    /\ landmarkExtractionIntervalRef' = 0
    /\ hands' = IF mediapipeHandsRef # 0
                THEN [hands EXCEPT !.closed = @ + 1] ELSE hands
    /\ mediapipeHandsRef' = 0
    /\ UNCHANGED <<inputMode, file, videoSrc, error>>
    /\ UNCHANGED <<streamRef, camPending, isCameraActive>>
    /\ UNCHANGED <<samples, inFlight, realtimeLandmarks>>
    /\ UNCHANGED <<recVars, transVars, ghostVars, normVars, outVars>>

----------------------------------------------------------------------------
(* Live Extractor                                                           *)

\* startRealtimeLandmarkExtraction for the recording r that is starting
startRealtimeLandmarkExtraction(r) ==
    IF mediapipeHandsRef = 0 \/ ~webcamPresent
    THEN UNCHANGED <<realtimeLandmarks, liveIntervals, landmarkExtractionIntervalRef>>
    ELSE /\ realtimeLandmarks' = <<>>
         /\ liveIntervals' = liveIntervals \cup {r}
         /\ landmarkExtractionIntervalRef' = r

stopRealtimeLandmarkExtraction ==
    IF landmarkExtractionIntervalRef # 0
    THEN /\ liveIntervals' = liveIntervals \ {landmarkExtractionIntervalRef}
         /\ landmarkExtractionIntervalRef' = 0
    ELSE UNCHANGED <<liveIntervals, landmarkExtractionIntervalRef>>

\* A tick of sampling interval iv that finds the webcam element ready
\* (readyState 4, i.e. a live stream attached): draw and send.
LiveTick(iv) ==
    /\ iv \in liveIntervals
    /\ webcamPresent
    /\ streamRef # 0 /\ streams[streamRef]
    /\ mediapipeHandsRef # 0
    /\ samples < MaxSamples
    /\ samples' = samples + 1
    /\ inFlight' = Append(inFlight, <<iv, samples + 1>>)
    /\ UNCHANGED <<liveIntervals, landmarkExtractionIntervalRef, realtimeLandmarks>>
    /\ UNCHANGED <<uiVars, camVars, handsVars, recVars, timerVars, transVars,
                   ghostVars, userActions, normVars, outVars>>

\* The live detector's onResults callback for the oldest submission
LiveResults ==
    /\ inFlight # <<>>
    /\ realtimeLandmarks' =
           packed(Append(unpacked(realtimeLandmarks),
                         FrameOf(Head(inFlight)[1], Head(inFlight)[2])))
    /\ inFlight' = Tail(inFlight)
    /\ UNCHANGED <<liveIntervals, landmarkExtractionIntervalRef, samples>>
    /\ UNCHANGED <<uiVars, camVars, handsVars, recVars, timerVars, transVars,
                   ghostVars, userActions, normVars, outVars>>

----------------------------------------------------------------------------
(* Recording                                                                *)

recorderActive(r) == r # 0 /\ recorders[r].state # "inactive"

\* Record toggle (rendered in record mode only) while not recording:
\* startRecording, everything succeeds
StartRecording ==
    /\ UserAction
    /\ inputMode = "record"
    /\ ~isProcessing /\ ~isRecording /\ isCameraActive
    /\ streamRef # 0
    /\ LET r == Len(recorders) + 1 IN
        /\ recorders' = Append(recorders, [state |-> "recording", stream |-> streamRef])
        /\ mediaRecorderRef' = r
        /\ isRecording' = TRUE
        /\ startRealtimeLandmarkExtraction(r)
        /\ remainingSeconds' = DEFAULT_RECORD_MAX_SECONDS
        /\ countdownTimerRef' = r
        /\ recordingTimeoutRef' = r
        /\ timeoutPending' = r
    /\ stopCalls' = Append(stopCalls, 0)
    /\ UNCHANGED <<stopEvents, samples, inFlight, userStopped>>
    /\ UNCHANGED <<uiVars, camVars, handsVars, transVars, normVars, outVars>>

\* startRecording when new MediaRecorder(...) throws
StartRecordingCtorFails ==
    /\ UserAction
    /\ inputMode = "record"
    /\ ~isProcessing /\ ~isRecording /\ isCameraActive
    /\ streamRef # 0
    /\ error' = Msg("recordingNotSupported")
    /\ UNCHANGED <<mounted, inputMode, file, videoSrc>>
    /\ UNCHANGED <<camVars, handsVars, recVars, timerVars, liveVars, transVars,
                   ghostVars, normVars, outVars>>

\* A try block that calls setIsRecording(true) before mediaRecorder.start()
startFailedAfterSetIsRecording ==
    /\ error' = Msg("startFailed")
    /\ isRecording' = TRUE

\* start() throws as the first statement of its try block: the catch block
\* sets the error
startFailed ==
    /\ error' = Msg("startFailed")
    /\ UNCHANGED isRecording

\* startRecording when mediaRecorder.start() throws
StartRecordingStartFails ==
    /\ UserAction
    /\ inputMode = "record"
    /\ ~isProcessing /\ ~isRecording /\ isCameraActive
    /\ streamRef # 0
    /\ recorders' = Append(recorders, [state |-> "inactive", stream |-> streamRef])
    /\ mediaRecorderRef' = Len(recorders) + 1
    /\ startFailed
    /\ stopCalls' = Append(stopCalls, 0)
    /\ UNCHANGED <<stopEvents, userStopped>>
    /\ UNCHANGED <<mounted, inputMode, file, videoSrc>>
    /\ UNCHANGED <<camVars, handsVars, timerVars, liveVars, transVars, normVars, outVars>>

\* stopRecording that leaves the auto-stop timeout armed
stopRecordingKeepsTimeout(caller, pending) ==
    /\ IF recorderActive(mediaRecorderRef)
       THEN /\ recorders' = [recorders EXCEPT ![mediaRecorderRef].state = "inactive"]
            /\ stopEvents' = stopEvents \cup {mediaRecorderRef}
       ELSE UNCHANGED <<recorders, stopEvents>>
    /\ isRecording' = SetState(isRecording, FALSE)
    /\ remainingSeconds' = SetState(remainingSeconds, 0)
    /\ countdownTimerRef' = 0
    /\ UNCHANGED recordingTimeoutRef
    /\ timeoutPending' = pending
    /\ stopCalls' = IF mediaRecorderRef # 0
                    THEN [stopCalls EXCEPT ![mediaRecorderRef] = @ + 1]
                    ELSE stopCalls
    /\ userStopped' = IF caller = "user" /\ recorderActive(mediaRecorderRef)
                         /\ pending = mediaRecorderRef
                      THEN userStopped \cup {mediaRecorderRef}
                      ELSE userStopped
    /\ UNCHANGED mediaRecorderRef

\* stopRecording; pending is the auto-stop timeout still pending at the call
stopRecording(caller, pending) ==
    /\ IF recorderActive(mediaRecorderRef)
       THEN /\ recorders' = [recorders EXCEPT ![mediaRecorderRef].state = "inactive"]
            /\ stopEvents' = stopEvents \cup {mediaRecorderRef}
       ELSE UNCHANGED <<recorders, stopEvents>>
    /\ isRecording' = SetState(isRecording, FALSE)
    /\ remainingSeconds' = SetState(remainingSeconds, 0)
    /\ countdownTimerRef' = 0
    /\ recordingTimeoutRef' = 0
    /\ timeoutPending' = IF recordingTimeoutRef # 0 /\ pending = recordingTimeoutRef
                         THEN 0 ELSE pending
    /\ stopCalls' = IF mediaRecorderRef # 0
                    THEN [stopCalls EXCEPT ![mediaRecorderRef] = @ + 1]
                    ELSE stopCalls
    /\ userStopped' = IF caller = "user" /\ recorderActive(mediaRecorderRef)
                         /\ pending = mediaRecorderRef
                      THEN userStopped \cup {mediaRecorderRef}
                      ELSE userStopped
    /\ UNCHANGED mediaRecorderRef

\* Record toggle while recording
StopRecordingClick ==
    /\ UserAction
    /\ inputMode = "record"
    /\ ~isProcessing /\ isRecording
    /\ stopRecording("user", timeoutPending)
    /\ UNCHANGED <<uiVars, camVars, handsVars, liveVars, transVars, normVars, outVars>>

\* A tick of the one-second countdown interval
CountdownTick ==
    /\ countdownTimerRef # 0
    /\ remainingSeconds > DEFAULT_RECORD_MAX_SECONDS - MaxTicks
    /\ remainingSeconds' =
           SetState(remainingSeconds,
                    IF remainingSeconds > 0 THEN remainingSeconds - 1 ELSE 0)
    /\ UNCHANGED <<countdownTimerRef, recordingTimeoutRef, timeoutPending>>
    /\ UNCHANGED <<uiVars, camVars, handsVars, recVars, liveVars, transVars,
                   ghostVars, userActions, normVars, outVars>>

\* The auto-stop timeout fires
RecordingTimeout ==
    /\ timeoutPending # 0
    /\ IF recorderActive(mediaRecorderRef)
       THEN stopRecording("timeout", 0)
       ELSE /\ timeoutPending' = 0
            /\ UNCHANGED <<recVars, countdownTimerRef, recordingTimeoutRef,
                           remainingSeconds, ghostVars>>
    /\ UNCHANGED <<uiVars, camVars, handsVars, liveVars, transVars,
                   userActions, normVars, outVars>>

\* mediaRecorder.onstop: the clip is built from the chunks of the recorder
\* that mediaRecorderRef holds now, and the sampling interval is stopped.
onstop ==
    /\ file' = SetState(file, RecordedFile(mediaRecorderRef))
    /\ videoSrc' = SetState(videoSrc, RecordedFile(mediaRecorderRef))
    /\ stopRealtimeLandmarkExtraction

\* The stop event queued by stop() is dispatched
RecorderStopEvent(r) ==
    /\ r \in stopEvents
    /\ stopEvents' = stopEvents \ {r}
    /\ onstop
    /\ UNCHANGED <<recorders, mediaRecorderRef, isRecording>>
    /\ UNCHANGED <<mounted, inputMode, error>>
    /\ UNCHANGED <<samples, inFlight, realtimeLandmarks>>
    /\ UNCHANGED <<camVars, handsVars, timerVars, transVars, ghostVars,
                   userActions, normVars, outVars>>

\* All tracks of the recorded stream have ended: the browser inactivates
\* the recorder and fires its stop event.
RecorderTracksEnded(r) ==
    /\ r \in 1..Len(recorders)
    /\ recorders[r].state = "recording"
    /\ ~streams[recorders[r].stream]
    /\ recorders' = [recorders EXCEPT ![r].state = "inactive"]
    /\ onstop
    /\ UNCHANGED <<mediaRecorderRef, stopEvents, isRecording>>
    /\ UNCHANGED <<mounted, inputMode, error>>
    /\ UNCHANGED <<samples, inFlight, realtimeLandmarks>>
    /\ UNCHANGED <<camVars, handsVars, timerVars, transVars, ghostVars,
                   userActions, normVars, outVars>>

----------------------------------------------------------------------------
(* Translation Orchestrator and Batch Extractor                             *)

\* The image source tag of the frames the batch extractor reads from a clip
ClipSource(clip) ==
    IF clip = NoFile THEN 100 ELSE IF clip[1] = "rec" THEN 100 + clip[2] ELSE 110

\* Clip durations in hundredths of a second
Durations == {4 * n + d : n \in 0..MaxBatchFrames, d \in {0, 3}}

\* video.duration of a clip that has no length in its header (the double
\* +Infinity)
Infinity == 2147483647

\* Clip durations of the runs that follow the batch extractor alone
ClipDurations == {4 * n + d : n \in 0..MaxClipFrames, d \in {0, 3}} \cup {Infinity}

\* Math.max(0, Math.floor(duration * fps))
totalFramesOf(duration) ==
    IF duration = Infinity THEN Infinity
    ELSE Max(0, (duration * TARGET_FPS) \div 100)

realSources(landmarksList) ==
    UNION {SourcesOf(landmarksList[i]) : i \in 1..Len(landmarksList)}

\* A finally block that leaves the stage label as it is
translateFinallyKeepsStage ==
    /\ isProcessing' = SetState(isProcessing, FALSE)
    /\ UNCHANGED currentStage
    /\ translation' = NoTranslation
    /\ requestFrames' = <<>>
    /\ camPending' = IF translation.inputMode = "record"
                     THEN callStartCamera(camPending, "translate")
                     ELSE camPending

\* handleTranslate's finally block: clear the flag and, when the call was
\* made in record mode, call startCamera again.
translateFinally ==
    /\ isProcessing' = SetState(isProcessing, FALSE)
    /\ currentStage' = SetState(currentStage, "")
    /\ translation' = NoTranslation
    /\ requestFrames' = <<>>
    /\ camPending' = IF translation.inputMode = "record"
                     THEN callStartCamera(camPending, "translate")
                     ELSE camPending

\* The log lines of the live path's truncate-or-pad branch for n frames
liveLogs(n) ==
    IF n > MAX_SEQ_LEN THEN <<LogEntry("truncating")>>
    ELSE IF n < MAX_SEQ_LEN THEN <<LogEntry("padding")>>
    ELSE <<LogEntry("using_exactly")>>

\* The log lines extractLandmarksFromVideo writes after its frame loop
batchLogs(n) ==
    <<LogEntry("log_extracted_frames")>>
    \o (IF n > MAX_SEQ_LEN THEN <<LogEntry("log_truncating")>>
        ELSE IF n < MAX_SEQ_LEN THEN <<LogEntry("log_padding")>>
        ELSE <<>>)
    \o <<LogEntry("log_final_sequence"),
         LogEntry("log_landmark_extraction_complete")>>

\* A test that takes the live path in record mode whatever the accumulator holds
useRealtimeLandmarksAnyLength == inputMode = "record"

\* inputMode === "record" && realtimeLandmarksRef.current.length > 0
useRealtimeLandmarks == inputMode = "record" /\ numPoints(realtimeLandmarks) > 0

\* a Translate button that stays enabled while a translation is processing
translateButtonIgnoresProcessing == file # NoFile

\* disabled={!file || isProcessing}
translateButtonEnabled == ~isProcessing /\ file # NoFile

\* Translate button: handleTranslate up to its first await.  In record mode
\* with a non-empty accumulator the accumulator is normalized and the request
\* is sent; otherwise extractLandmarksFromVideo starts.
HandleTranslate ==
    /\ UserAction
    /\ translateButtonEnabled
    /\ isProcessing' = TRUE
    /\ error' = NoError
    /\ results' = NoResults
    /\ IF isCameraActive THEN stopCamera ELSE UNCHANGED <<streams, isCameraActive>>
    /\ IF useRealtimeLandmarks
       THEN LET accumulator == unpacked(realtimeLandmarks)
                n == normalizeLive(accumulator, MAX_SEQ_LEN) IN
            /\ currentStage' = "translatingSignLanguage"
            /\ progress' = 50
            /\ extractionLog' =
                   <<LogEntry("log_starting_landmark_extraction"),
                     LogEntry("using_realtime_landmarks")>>
                   \o liveLogs(Len(accumulator))
                   \o <<LogEntry("log_sending_landmarks")>>
            /\ realtimeLandmarks' = packed(n.accumulator)
            /\ requestFrames' = packed(n.landmarksList)
            /\ translation' = [pc |-> "fetch", inputMode |-> inputMode,
                               path |-> "live", clip |-> file,
                               liveSources |-> realSources(accumulator),
                               stillRecording |->
                                   \E r \in 1..Len(recorders) : recorderActive(r),
                               response |-> NoBody]
            /\ UNCHANGED batch
       ELSE /\ currentStage' = "extractingLandmarks"
            /\ progress' = 0
            /\ extractionLog' = <<LogEntry("log_starting_landmark_extraction"),
                                  LogEntry("log_initializing_mediapipe")>>
            /\ translation' = [pc |-> "extract", inputMode |-> inputMode,
                               path |-> "batch", clip |-> file,
                               liveSources |-> {}, stillRecording |-> FALSE,
                               response |-> NoBody]
            /\ batch' = [NoBatch EXCEPT !.pc = "init"]
            /\ UNCHANGED <<realtimeLandmarks, requestFrames>>
    /\ UNCHANGED <<mounted, inputMode, file, videoSrc>>
    /\ UNCHANGED <<streamRef, camPending, handsVars, recVars, timerVars>>
    /\ UNCHANGED <<liveIntervals, landmarkExtractionIntervalRef, samples, inFlight>>
    /\ UNCHANGED <<ghostVars, normVars, historyVars>>

\* End of the frame loop: hands.close(), normalization, flattening; the
\* promise resolves (the run's locals are gone) and handleTranslate sends
\* the request.
batchFinish(landmarksList, logged) ==
    /\ batch' = [batch EXCEPT !.pc = "done", !.closed = TRUE, !.landmarksList = <<>>,
                              !.i = 0, !.duration = 0, !.totalFrames = 0]
    /\ requestFrames' = packed(normalizeBatch(landmarksList, MAX_SEQ_LEN))
    /\ translation' = [translation EXCEPT !.pc = "fetch"]
    /\ currentStage' = SetState(currentStage, "translatingSignLanguage")
    /\ progress' = SetState(progress, 50)
    /\ extractionLog' =
           SetState(extractionLog,
                    extractionLog \o logged \o batchLogs(Len(landmarksList))
                        \o <<LogEntry("log_sending_landmarks")>>)

\* hands.initialize() of the batch detector resolves and the clip's metadata
\* is there: totalFrames is computed and the first seek is issued.
BatchInitialized(duration) ==
    /\ batch.pc = "init"
    /\ LET logged == <<LogEntry("log_mediapipe_initialized"),
                       LogEntry("log_video_duration"),
                       LogEntry("log_extract_frames")>>
       IN  IF totalFramesOf(duration) = 0
           THEN batchFinish(<<>>, logged)
           ELSE /\ batch' = [batch EXCEPT !.pc = "seek", !.duration = duration,
                                          !.totalFrames = totalFramesOf(duration)]
                /\ extractionLog' =
                       SetState(extractionLog, extractionLog \o logged)
                /\ UNCHANGED <<requestFrames, translation, currentStage, progress>>
    /\ UNCHANGED <<isProcessing, results, historyVars>>
    /\ UNCHANGED <<uiVars, camVars, handsVars, recVars, timerVars, liveVars,
                   ghostVars, userActions, normVars>>

\* The seeked event: the frame is drawn and sent to the batch detector
BatchSeeked ==
    /\ batch.pc = "seek"
    /\ batch.i < MaxClipFrames
    /\ batch' = [batch EXCEPT !.pc = "detect"]
    /\ UNCHANGED <<isProcessing, translation, requestFrames>>
    /\ UNCHANGED <<uiVars, camVars, handsVars, recVars, timerVars, liveVars,
                   ghostVars, userActions, normVars, outVars>>

\* A callback that puts its frame in front
unshiftFrame(landmarksList, frameLandmarks) == <<frameLandmarks>> \o landmarksList

\* landmarksList.push(frameLandmarks)
pushFrame(landmarksList, frameLandmarks) == Append(landmarksList, frameLandmarks)

\* The progress the onResults callback reports after processedFrames of
\* totalFrames: half the share done, in steps of 5, when that is more than
\* was last reported (lastProgressUpdate is what the bar shows)
extractionProgress(lastProgressUpdate, processedFrames, totalFrames) ==
    LET roundedProgress == 5 * ((10 * processedFrames) \div totalFrames)
    IN  IF roundedProgress > lastProgressUpdate
        THEN Min(roundedProgress, 50)
        ELSE lastProgressUpdate

\* The batch detector's onResults callback (one log line every 25 frames),
\* then send() resolves and the loop goes on to the next frame or ends.
BatchResults ==
    /\ batch.pc = "detect"
    /\ LET list == pushFrame(batch.landmarksList,
                              FrameOf(ClipSource(videoSrc), batch.i + 1))
           logged == IF (batch.i + 1) % 25 = 0
                     THEN <<LogEntry("log_processed_frames")>> ELSE <<>>
       IN  IF batch.i + 1 < batch.totalFrames
           THEN /\ batch' = [batch EXCEPT !.pc = "seek", !.i = @ + 1,
                                          !.landmarksList = list]
                /\ extractionLog' =
                       SetState(extractionLog, extractionLog \o logged)
                /\ progress' =
                       SetState(progress,
                                extractionProgress(progress, batch.i + 1,
                                                   batch.totalFrames))
                /\ UNCHANGED <<requestFrames, translation, currentStage>>
           ELSE batchFinish(list, logged)
    /\ UNCHANGED <<isProcessing, results, historyVars>>
    /\ UNCHANGED <<uiVars, camVars, handsVars, recVars, timerVars, liveVars,
                   ghostVars, userActions, normVars>>

\* The clip cannot be read (an error event of the processing video while its
\* metadata or a seek is awaited): no handler is registered for it, the
\* awaited promise is never settled.
BatchMediaError ==
    /\ batch.pc \in {"init", "seek"}
    /\ batch' = [batch EXCEPT !.pc = "hung"]
    /\ UNCHANGED <<isProcessing, translation, requestFrames>>
    /\ UNCHANGED <<uiVars, camVars, handsVars, recVars, timerVars, liveVars,
                   ghostVars, userActions, normVars, outVars>>

\* A catch block that shows the error but writes no log line
translateCatchSilent(message) ==
    /\ error' = SetState(error, IF message = NoError
                                THEN Msg("translationFailedTryAgain")
                                ELSE message)
    /\ UNCHANGED extractionLog

\* handleTranslate's catch block for an error with the given message
translateCatch(message) ==
    /\ error' = SetState(error, IF message = NoError
                                THEN Msg("translationFailedTryAgain")
                                ELSE message)
    /\ extractionLog' = SetState(extractionLog,
                                 Append(extractionLog, LogError(message)))

\* A failed translate run: catch, then finally
translateFailed(message) ==
    /\ translateCatch(message)
    /\ translateFinally
    /\ UNCHANGED <<progress, results, historyVars>>
    /\ UNCHANGED <<mounted, inputMode, file, videoSrc>>
    /\ UNCHANGED <<streams, streamRef, isCameraActive, userActions>>
    /\ UNCHANGED <<handsVars, recVars, timerVars, liveVars, ghostVars, normVars>>

\* extractLandmarksFromVideo rejects (detector initialization, seek or
\* detection failure): handleTranslate's catch and finally blocks run.
BatchFailed ==
    /\ batch.pc \in {"init", "seek", "detect"}
    /\ batch' = [batch EXCEPT !.pc = "failed", !.landmarksList = <<>>,
                              !.i = 0, !.duration = 0, !.totalFrames = 0]
    /\ translateFailed(Msg("extraction failed"))

\* array.slice(a, b) and string.substring(a, b) for 0 <= a <= b
slice(seq, a, b) == SubSeq(seq, a + 1, Min(b, Len(seq)))

substring(text, a, b) == slice(text, a, b)

\* A history that grows without a cap
historyWithUncapped(record, prev) == <<record>> \o prev

\* The history after a record is put in front: [record, ...prev].slice(0, 10)
historyWith(record, prev) == slice(<<record>> \o prev, 0, 10)

\* The response is ok and its JSON has the fields handleTranslate reads:
\* the result is shown, spoken, put into the history and the storage.
FetchOk ==
    /\ translation.pc = "fetch"
    /\ progress' = SetState(progress, 100)
    /\ results' = SetState(results, <<"result", translation.clip>>)
    /\ now' = now + 1
    /\ LET record == [id |-> now', clip |-> translation.clip]
           next == historyWith(record, translationHistory)
       IN  /\ translationHistory' = SetState(translationHistory, next)
           /\ storage' = SetState(storage, next)
    /\ extractionLog' =
           SetState(extractionLog,
                    Append(extractionLog, LogEntry("log_translation_complete")))
    /\ translateFinally
    /\ UNCHANGED batch
    /\ UNCHANGED <<uiVars, streams, streamRef, isCameraActive>>
    /\ UNCHANGED <<handsVars, recVars, timerVars, liveVars, ghostVars,
                   userActions, normVars>>

\* fetch rejects: the request never got a response
FetchRejected ==
    /\ translation.pc = "fetch"
    /\ translateFailed(Msg("Failed to fetch"))
    /\ UNCHANGED batch

\* The text of a response body of n characters
Text(n) == [i \in 1..n |-> i % 7]

\* Bodies of non-2xx responses: the text, whether JSON.parse accepts it and
\* the error field of the parsed value ("" when it has none)
ErrorBodies ==
    {[text |-> Text(9), json |-> TRUE, error |-> "Model not loaded"],
     [text |-> Text(2), json |-> TRUE, error |-> ""]}
    \cup {[text |-> Text(n), json |-> FALSE, error |-> ""] : n \in BodyLengths}

\* What the try block of the non-2xx branch throws
thrownInTry(body) ==
    IF ~body.json THEN Msg("SyntaxError")
    ELSE IF body.error # "" THEN Msg(body.error) ELSE Msg("Translation failed")

\* A non-2xx branch that does not truncate the body
nonOkMessageWholeBody(body) ==
    LET thrown == thrownInTry(body)
        caught == thrown # NoError
    IN  IF caught
        THEN [prefix |-> "Server error: ",
              chars  |-> body.text,
              suffix |-> "..."]
        ELSE thrown

\* The message of the error leaving the non-2xx branch: the try block always
\* throws, and the catch around it replaces whatever was thrown.
nonOkMessage(body) ==
    LET thrown == thrownInTry(body)
        caught == thrown # NoError
    IN  IF caught
        THEN [prefix |-> "Server error: ",
              chars  |-> substring(body.text, 0, 100),
              suffix |-> "..."]
        ELSE thrown

\* fetch resolves with a response that is not ok: its text is awaited
ResponseNotOk(body) ==
    /\ translation.pc = "fetch"
    /\ translation' = [translation EXCEPT !.pc = "errorText", !.response = body]
    /\ UNCHANGED <<isProcessing, batch, requestFrames>>
    /\ UNCHANGED <<uiVars, camVars, handsVars, recVars, timerVars, liveVars,
                   ghostVars, userActions, normVars, outVars>>

\* response.text() resolves: the non-2xx branch throws
ErrorTextRead ==
    /\ translation.pc = "errorText"
    /\ translateFailed(nonOkMessage(translation.response))
    /\ UNCHANGED batch

\* The response is ok but response.json() rejects, or the parsed value lacks
\* the confidence object and building the result throws a TypeError
ResponseUnreadable(message) ==
    /\ translation.pc = "fetch"
    /\ message \in {Msg("Unexpected token"), Msg("Cannot read properties")}
    /\ translateFailed(message)
    /\ UNCHANGED batch

----------------------------------------------------------------------------
(* The session                                                              *)

Next ==
    \/ \E caller \in {"effect", "translate"} : CameraAcquired(caller)
    \/ \E caller \in {"effect", "translate"} : CameraWaitDone(caller)
    \/ \E caller \in {"effect", "translate"} : CameraFailed(caller)
    \/ HandsInitialized
    \/ HandsInitFailed
    \/ ClickUpload
    \/ ClickRecord
    \/ FileSelect
    \/ FileSelectInvalid
    \/ Unmount
    \/ \E iv \in liveIntervals : LiveTick(iv)
    \/ LiveResults
    \/ StartRecording
    \/ StartRecordingCtorFails
    \/ StartRecordingStartFails
    \/ StopRecordingClick
    \/ RecordingTimeout
    \/ CountdownTick
    \/ \E r \in stopEvents : RecorderStopEvent(r)
    \/ \E r \in 1..Len(recorders) : RecorderTracksEnded(r)
    \/ HandleTranslate
    \/ \E d \in Durations : BatchInitialized(d)
    \/ BatchSeeked
    \/ BatchResults
    \/ BatchFailed
    \/ FetchOk
    \/ FetchRejected
    \/ \E body \in ErrorBodies : ResponseNotOk(body)
    \/ ErrorTextRead
    \/ \E message \in {Msg("Unexpected token"), Msg("Cannot read properties")} :
           ResponseUnreadable(message)

Spec == Init /\ [][Next]_vars

\* The session from the moment a first clip has been recorded in record
\* mode: the camera was acquired, the live detector is still initializing,
\* the recording was ended by its auto-stop timeout and onstop has selected
\* the clip.  The user actions are counted from here.
RecordedClip ==
    /\ mounted = TRUE
    /\ inputMode = "record"
    /\ file = RecordedFile(1)
    /\ videoSrc = RecordedFile(1)
    /\ error = NoError
    /\ currentStage = ""
    /\ progress = 0
    /\ results = NoResults
    /\ extractionLog = <<>>
    /\ isProcessing = FALSE
    /\ isRecording = FALSE
    /\ isCameraActive = TRUE
    /\ streams = <<TRUE>>
    /\ streamRef = 1
    /\ camPending = NoCamCalls
    /\ mediapipeHandsRef = 0
    /\ recorders = <<[state |-> "inactive", stream |-> 1]>>
    /\ mediaRecorderRef = 1
    /\ stopEvents = {}
    /\ countdownTimerRef = 0
    /\ recordingTimeoutRef = 0
    /\ timeoutPending = 0
    /\ remainingSeconds = 0
    /\ liveIntervals = {}
    /\ landmarkExtractionIntervalRef = 0
    /\ samples = 0
    /\ inFlight = <<>>
    /\ realtimeLandmarks = <<>>
    /\ translation = NoTranslation
    /\ batch = NoBatch
    /\ requestFrames = <<>>
    /\ stopCalls = <<1>>
    /\ userStopped = {}

\* No history in memory or in storage
NoHistory == translationHistory = <<>> /\ storage = <<>> /\ now = 0

RecordedState ==
    /\ RecordedClip
    /\ NoHistory
    /\ hands = [created |-> 1, initializing |-> 1, closed |-> 0]

RecordedInit == RecordedState /\ userActions = 0 /\ NormIdle

RecordedSpec == RecordedInit /\ [][Next]_vars

----------------------------------------------------------------------------
(* The earlier copy of the component (unnamed/part_000).  Its startCamera,  *)
(* stopCamera, resetState, response handling, catch and finally blocks are  *)
(* the same code; its mode buttons have no processing guard, it has no live *)
(* detector, and handleTranslate always runs extractLandmarksFromVideo,     *)
(* which collects its log lines locally.  The run below follows the         *)
(* translation of a recorded clip with the Upload button at hand.           *)

\* Upload button of the earlier copy: resetState, stopCamera,
\* setInputMode("upload"), whatever isProcessing is
LegacyClickUpload ==
    /\ UserAction
    /\ resetState
    /\ isRecording' = FALSE
    /\ stopCamera
    /\ inputMode' = "upload"
    /\ UNCHANGED <<mounted, streamRef, camPending, handsVars>>
    /\ UNCHANGED <<recorders, mediaRecorderRef, stopEvents>>
    /\ UNCHANGED <<timerVars, liveVars, transVars, ghostVars, normVars>>
    /\ UNCHANGED <<currentStage, progress, historyVars>>

\* Translate button of the earlier copy: handleTranslate up to its await
LegacyHandleTranslate ==
    /\ UserAction
    /\ ~isProcessing /\ file # NoFile
    /\ isProcessing' = TRUE
    /\ error' = NoError
    /\ results' = NoResults
    /\ IF isCameraActive THEN stopCamera ELSE UNCHANGED <<streams, isCameraActive>>
    /\ currentStage' = "extractingLandmarks"
    /\ progress' = 0
    /\ extractionLog' = <<LogEntry("log_starting_landmark_extraction")>>
    /\ translation' = [pc |-> "extract", inputMode |-> inputMode,
                       path |-> "batch", clip |-> file,
                       liveSources |-> {}, stillRecording |-> FALSE,
                       response |-> NoBody]
    /\ batch' = [NoBatch EXCEPT !.pc = "init"]
    /\ UNCHANGED requestFrames
    /\ UNCHANGED <<mounted, inputMode, file, videoSrc>>
    /\ UNCHANGED <<streamRef, camPending, handsVars, recVars, timerVars, liveVars>>
    /\ UNCHANGED <<ghostVars, normVars, historyVars>>

\* extractLandmarksFromVideo of the earlier copy resolves for a clip of n
\* frames: the log is replaced by the lines collected, the request is sent
LegacyExtracted(n) ==
    /\ translation.pc = "extract" /\ batch.pc = "init"
    /\ LET list == [i \in 1..n |-> FrameOf(ClipSource(videoSrc), i)] IN
        /\ requestFrames' = packed(normalizeBatch(list, MAX_SEQ_LEN))
        /\ extractionLog' =
               SetState(extractionLog,
                        <<LogEntry("log_initializing_mediapipe"),
                          LogEntry("log_mediapipe_initialized"),
                          LogEntry("log_video_duration"),
                          LogEntry("log_extract_frames")>>
                        \o batchLogs(n)
                        \o <<LogEntry("log_sending_landmarks")>>)
    /\ batch' = [batch EXCEPT !.pc = "done", !.closed = TRUE]
    /\ translation' = [translation EXCEPT !.pc = "fetch"]
    /\ currentStage' = SetState(currentStage, "translatingSignLanguage")
    /\ progress' = SetState(progress, 50)
    /\ UNCHANGED <<isProcessing, results, historyVars>>
    /\ UNCHANGED <<uiVars, camVars, handsVars, recVars, timerVars, liveVars,
                   ghostVars, userActions, normVars>>

\* extractLandmarksFromVideo of the earlier copy rejects
LegacyExtractionFailed ==
    /\ translation.pc = "extract" /\ batch.pc = "init"
    /\ batch' = [batch EXCEPT !.pc = "failed"]
    /\ translateFailed(Msg("extraction failed"))

LegacyInit ==
    /\ RecordedClip
    /\ NoHistory
    /\ hands = [created |-> 0, initializing |-> 0, closed |-> 0]
    /\ userActions = 0
    /\ NormIdle

LegacyNext ==
    \/ LegacyClickUpload
    \/ LegacyHandleTranslate
    \/ \E n \in 0..MaxBatchFrames : LegacyExtracted(n)
    \/ LegacyExtractionFailed
    \/ FetchOk
    \/ FetchRejected
    \/ \E body \in ErrorBodies : ResponseNotOk(body)
    \/ ErrorTextRead
    \/ \E message \in {Msg("Unexpected token"), Msg("Cannot read properties")} :
           ResponseUnreadable(message)
    \/ CameraAcquired("translate")
    \/ CameraWaitDone("translate")
    \/ CameraFailed("translate")

LegacySpec == LegacyInit /\ [][LegacyNext]_vars

----------------------------------------------------------------------------
(* The translation history.  The run below starts where a clip has been    *)
(* recorded and the mount effect has loaded the list an earlier session    *)
(* left in storage; it follows translations of the clip and the history    *)
(* buttons.  A record is its id (the clock reading) and what it describes; *)
(* its fields are numbers and strings, which JSON.stringify and JSON.parse *)
(* give back unchanged.                                                    *)

\* Lengths of the list found in storage at mount
PriorLengths == {0, 9, 10}

\* The list an earlier session stored after n translations, newest first
PriorRecords(n) == [i \in 1..n |-> [id |-> n + 1 - i, clip |-> UploadedFile]]

\* The mount effect: setTranslationHistory(parsed.slice(0, 10))
loadHistory(parsed) == slice(parsed, 0, 10)

\* The ids of the records of a list
idsOf(list) == {list[i].id : i \in 1..Len(list)}

\* The Clear button: localStorage.removeItem, setTranslationHistory([])
ClearHistory ==
    /\ UserAction
    /\ storage' = <<>>
    /\ translationHistory' = <<>>
    /\ UNCHANGED <<now, currentStage, progress, results, extractionLog>>
    /\ UNCHANGED <<uiVars, camVars, handsVars, recVars, timerVars, liveVars,
                   transVars, ghostVars, normVars>>

\* The delete button of the record with the given id: the list without the
\* records of that id is set and stored
DeleteHistoryItem(recordId) ==
    /\ UserAction
    /\ recordId \in idsOf(translationHistory)
    /\ LET updatedHistory ==
               SelectSeq(translationHistory, LAMBDA rec : rec.id # recordId)
       IN  /\ translationHistory' = updatedHistory
           /\ storage' = updatedHistory
    /\ UNCHANGED <<now, currentStage, progress, results, extractionLog>>
    /\ UNCHANGED <<uiVars, camVars, handsVars, recVars, timerVars, liveVars,
                   transVars, ghostVars, normVars>>

HistoryInit ==
    /\ RecordedClip
    /\ hands = [created |-> 1, initializing |-> 1, closed |-> 0]
    /\ storage \in {PriorRecords(n) : n \in PriorLengths}
    /\ translationHistory = loadHistory(storage)
    /\ now = Len(storage)
    /\ userActions = 0
    /\ NormIdle

HistoryNext ==
    \/ ClearHistory
    \/ \E recordId \in idsOf(translationHistory) : DeleteHistoryItem(recordId)
    \/ HandleTranslate
    \/ \E d \in Durations : BatchInitialized(d)
    \/ BatchSeeked
    \/ BatchResults
    \/ BatchFailed
    \/ FetchOk
    \/ FetchRejected
    \/ Unmount
    \/ HandsInitialized
    \/ HandsInitFailed
    \/ CameraAcquired("translate")
    \/ CameraWaitDone("translate")
    \/ CameraFailed("translate")

HistorySpec == HistoryInit /\ [][HistoryNext]_vars

----------------------------------------------------------------------------
(* handleTranslate without a clip.  The Translate button is disabled while *)
(* no clip is selected, so the guard at the top of handleTranslate is      *)
(* reached only by a call made all the same; the run below follows the     *)
(* session before any clip is selected and makes that call.                *)

noInputMessage ==
    IF inputMode = "upload"
    THEN Msg("Please select a video file first")
    ELSE Msg("Please record a video first")

\* A guard that stops the camera before it returns
noInputGuardStopsCamera ==
    /\ error' = SetState(error, noInputMessage)
    /\ IF isCameraActive THEN stopCamera ELSE UNCHANGED <<streams, isCameraActive>>
    /\ UNCHANGED <<streamRef, camPending>>

\* if (!file) { setError(...); return; }
noInputGuard ==
    /\ error' = SetState(error, noInputMessage)
    /\ UNCHANGED camVars

\* handleTranslate is called while no clip is selected
HandleTranslateNoFile ==
    /\ UserAction
    /\ file = NoFile
    /\ noInputGuard
    /\ UNCHANGED <<mounted, inputMode, file, videoSrc>>
    /\ UNCHANGED <<handsVars, recVars, timerVars, liveVars, transVars,
                   ghostVars, normVars, outVars>>

NoInputNext ==
    \/ HandleTranslateNoFile
    \/ CameraAcquired("effect")
    \/ CameraWaitDone("effect")
    \/ CameraFailed("effect")
    \/ HandsInitialized
    \/ HandsInitFailed
    \/ ClickUpload
    \/ ClickRecord
    \/ FileSelectInvalid
    \/ Unmount

NoInputSpec == Init /\ [][NoInputNext]_vars

----------------------------------------------------------------------------
(* The Batch Extractor on its own: the run below starts where the user has *)
(* switched to upload mode and picked a file (the camera was acquired and  *)
(* stopped, the live detector is initialized), and follows translations of *)
(* that file over clips of up to MaxClipFrames frames, clips that report   *)
(* no length, and clips that cannot be read.                               *)

UploadedClip ==
    /\ mounted = TRUE
    /\ inputMode = "upload"
    /\ file = UploadedFile
    /\ videoSrc = UploadedFile
    /\ error = NoError
    /\ currentStage = ""
    /\ progress = 0
    /\ results = NoResults
    /\ extractionLog = <<>>
    /\ NoHistory
    /\ isProcessing = FALSE
    /\ isRecording = FALSE
    /\ isCameraActive = FALSE
    /\ streams = <<FALSE>>
    /\ streamRef = 1
    /\ camPending = NoCamCalls
    /\ hands = [created |-> 1, initializing |-> 0, closed |-> 0]
    /\ mediapipeHandsRef = 1
    /\ recorders = <<>>
    /\ mediaRecorderRef = 0
    /\ stopEvents = {}
    /\ countdownTimerRef = 0
    /\ recordingTimeoutRef = 0
    /\ timeoutPending = 0
    /\ remainingSeconds = 0
    /\ liveIntervals = {}
    /\ landmarkExtractionIntervalRef = 0
    /\ samples = 0
    /\ inFlight = <<>>
    /\ realtimeLandmarks = <<>>
    /\ translation = NoTranslation
    /\ batch = NoBatch
    /\ requestFrames = <<>>
    /\ stopCalls = <<>>
    /\ userStopped = {}

BatchInit == UploadedClip /\ userActions = 0 /\ NormIdle

BatchNext ==
    \/ HandleTranslate
    \/ \E d \in ClipDurations : BatchInitialized(d)
    \/ BatchSeeked
    \/ BatchResults
    \/ BatchFailed
    \/ BatchMediaError
    \/ FetchOk
    \/ FetchRejected
    \/ Unmount

BatchSpec == BatchInit /\ [][BatchNext]_vars

----------------------------------------------------------------------------
(* startRecording without a stream.  The record toggle is disabled until   *)
(* the camera is active, so the guard at the top of startRecording is       *)
(* reached only by a call made all the same; the run below follows the      *)
(* recordings of a session and makes that call while no stream is stored.   *)

\* if (!streamRef.current) { setError("Camera not active."); return; }
StartRecordingNoStream ==
    /\ UserAction
    /\ inputMode = "record"
    /\ ~isRecording
    /\ streamRef = 0
    /\ error' = Msg("cameraNotActive")
    /\ UNCHANGED <<mounted, inputMode, file, videoSrc>>
    /\ UNCHANGED <<camVars, handsVars, recVars, timerVars, liveVars, transVars,
                   ghostVars, normVars, outVars>>

RecorderNext ==
    \/ StartRecordingNoStream
    \/ StartRecording
    \/ StartRecordingCtorFails
    \/ StartRecordingStartFails
    \/ StopRecordingClick
    \/ RecordingTimeout
    \/ CountdownTick
    \/ \E r \in stopEvents : RecorderStopEvent(r)
    \/ \E iv \in liveIntervals : LiveTick(iv)
    \/ LiveResults
    \/ CameraAcquired("effect")
    \/ CameraWaitDone("effect")
    \/ CameraFailed("effect")
    \/ HandsInitialized
    \/ HandsInitFailed
    \/ ClickUpload
    \/ ClickRecord
    \/ Unmount

RecorderSpec == Init /\ [][RecorderNext]_vars

----------------------------------------------------------------------------
(* The normalizer on its own: every raw length up to MAX_SEQ_LEN +         *)
(* MaxExtraLen, against the configured target and small targets.           *)

MaxRawLen == MAX_SEQ_LEN + MaxExtraLen

Targets == {0, 1, 2, 3, MAX_SEQ_LEN}

\* A raw sequence of n frames as one recording's sampling produces it
RawFrames(n) == [i \in 1..n |-> FrameOf(1, i)]

NormInit ==
    /\ SessionInit
    /\ rawSequence \in {RawFrames(n) : n \in 0..MaxRawLen}
    /\ targetLen \in Targets
    /\ normalized = <<>>
    /\ renormalized = <<>>
    /\ normAccumulator = rawSequence
    /\ submitted = <<>>
    /\ normPc = "input"
    /\ EncoderIdle

sessionVars == <<outVars, uiVars, camVars, handsVars, recVars, timerVars, liveIntervals,
                 landmarkExtractionIntervalRef, samples, inFlight,
                 realtimeLandmarks, isProcessing, translation, batch,
                 requestFrames, ghostVars, userActions, encVars>>

\* The live path's normalization (taken only with a non-empty accumulator)
NormLive ==
    /\ normPc = "input"
    /\ Len(rawSequence) > 0
    /\ LET n == normalizeLive(rawSequence, targetLen) IN
        /\ normalized' = n.landmarksList
        /\ normAccumulator' = n.accumulator
        /\ submitted' = flatLandmarks(n.landmarksList)
    /\ normPc' = "live"
    /\ UNCHANGED <<rawSequence, targetLen, renormalized, sessionVars>>

\* The batch path's normalization
NormBatch ==
    /\ normPc = "input"
    /\ normalized' = normalizeBatch(rawSequence, targetLen)
    /\ submitted' = flatLandmarks(normalized')
    /\ normPc' = "batch"
    /\ UNCHANGED <<rawSequence, targetLen, renormalized, normAccumulator, sessionVars>>

\* The same normalization applied to its own output
NormAgain ==
    /\ normPc \in {"live", "batch"}
    /\ renormalized' = IF normPc = "live"
                       THEN normalizeLive(normalized, targetLen).landmarksList
                       ELSE normalizeBatch(normalized, targetLen)
    /\ normPc' = IF normPc = "live" THEN "liveAgain" ELSE "batchAgain"
    /\ UNCHANGED <<rawSequence, targetLen, normalized, normAccumulator, submitted,
                   sessionVars>>

NormNext == NormLive \/ NormBatch \/ NormAgain

NormSpec == NormInit /\ [][NormNext]_vars

----------------------------------------------------------------------------
(* The frame encoder on its own: every detection result of up to MaxHands  *)
(* hands, each labelled Left, Right or otherwise, and the result object     *)
(* that carries no hands at all.                                            *)

Labels == {"Left", "Right", "Other"}

HandTags == {1, 2}

\* The result object for the hands hs, a sequence of <<label, tag>>
ResultsOf(hs) ==
    [multiHandLandmarks |-> [i \in 1..Len(hs) |-> HandOf(1, hs[i][2])],
     multiHandedness |-> [i \in 1..Len(hs) |-> [label |-> hs[i][1]]]]

Detections ==
    {NoHandsResults}
    \cup {ResultsOf(hs) :
             hs \in UNION {[1..n -> Labels \X HandTags] : n \in 0..MaxHands}}

EncoderInit ==
    /\ SessionInit
    /\ rawSequence = <<>>
    /\ targetLen = MAX_SEQ_LEN
    /\ normalized = <<>>
    /\ renormalized = <<>>
    /\ normAccumulator = <<>>
    /\ submitted = <<>>
    /\ normPc = "detection"
    /\ handsResults \in Detections
    /\ encoded = <<>>

\* The detector's callback encodes the result it is given
Encode ==
    /\ normPc = "detection"
    /\ encoded' = extractTwoHandLandmarks(handsResults)
    /\ normPc' = "encoded"
    /\ UNCHANGED <<handsResults, rawSequence, targetLen, normalized, renormalized,
                   normAccumulator, submitted>>
    /\ UNCHANGED <<outVars, uiVars, camVars, handsVars, recVars, timerVars,
                   liveVars, transVars, ghostVars, userActions>>

EncoderNext == Encode

EncoderSpec == EncoderInit /\ [][EncoderNext]_vars

----------------------------------------------------------------------------
(* Properties                                                               *)

\* C1: in upload mode, once every camera acquisition has settled, no
\* acquired stream has a live track and isCameraActive is false.
C1_UploadLeavesCameraIdle ==
    (mounted /\ inputMode = "upload" /\ camPending = NoCamCalls)
        => ((\A i \in 1..Len(streams) : ~streams[i]) /\ ~isCameraActive)

\* C2: after teardown, once every camera acquisition has settled, every
\* stream the component acquired has all its tracks stopped.
C2_NoLiveTrackAfterTeardown ==
    (~mounted /\ camPending = NoCamCalls) => \A i \in 1..Len(streams) : ~streams[i]

\* C3: a recording the user stops before its timeout has fired has, in the
\* very step of the stop and with its stop event still waiting, no countdown
\* interval and no auto-stop timeout left; from then on its timeout is never
\* pending again and stopRecording has run exactly once for it.
C3_UserStopCancelsTimers ==
    /\ [](\A r \in userStopped :
            /\ stopCalls[r] = 1
            /\ timeoutPending # r
            /\ countdownTimerRef # r
            /\ recordingTimeoutRef # r)
    /\ [][\A r \in 1..Len(recorders) :
            (r \notin userStopped /\ r \in userStopped')
                => /\ countdownTimerRef' = 0
                   /\ recordingTimeoutRef' = 0
                   /\ timeoutPending' = 0
                   /\ r \in stopEvents']_vars

\* a user-stopped recording whose stop event has been handled
C3_Witness ==
    \E r \in userStopped : r \notin stopEvents /\ file = RecordedFile(r)

\* C4: the sequence sent for target MAX_SEQ_LEN has exactly 190 rows of
\* exactly 126 numbers, whatever the raw length, on both paths.
C4_SubmittedShape ==
    (normPc \in {"live", "batch"} /\ targetLen = MAX_SEQ_LEN)
        => /\ Len(submitted) = 190
           /\ \A i \in 1..Len(submitted) : Len(submitted[i]) = 126

\* the live path has truncated a longer raw sequence to MAX_SEQ_LEN
C4_Witness ==
    normPc = "live" /\ targetLen = MAX_SEQ_LEN /\ Len(rawSequence) > MAX_SEQ_LEN

\* C5: for N > T and T > 1 the output starts with the first raw frame, ends
\* with the last raw frame, holds original frames only and no pad frame.
C5_TruncationKeepsEnds ==
    (normPc \in {"live", "batch"} /\ Len(rawSequence) > targetLen /\ targetLen > 1)
        => /\ normalized[1] = rawSequence[1]
           /\ normalized[Len(normalized)] = rawSequence[Len(rawSequence)]
           /\ \A i \in 1..Len(normalized) :
                  /\ \E j \in 1..Len(rawSequence) : normalized[i] = rawSequence[j]
                  /\ normalized[i] # padFrame

\* the batch path has truncated the longest raw sequence to MAX_SEQ_LEN
C5_Witness ==
    normPc = "batch" /\ targetLen = MAX_SEQ_LEN /\ Len(rawSequence) = MaxRawLen

\* C6: for N < T (N = 0 included) the output is the N raw frames in order
\* followed by T - N pad frames, each flattening to 126 values of -10.
C6_PaddingAfterRaw ==
    (normPc \in {"live", "batch"} /\ Len(rawSequence) < targetLen)
        => /\ Len(normalized) = targetLen
           /\ SubSeq(normalized, 1, Len(rawSequence)) = rawSequence
           /\ \A i \in (Len(rawSequence) + 1)..targetLen :
                  submitted[i] = [k \in 1..126 |-> -10]

\* the batch path has padded an empty raw sequence
C6_Witness ==
    normPc = "batch" /\ targetLen = MAX_SEQ_LEN /\ Len(rawSequence) = 0

\* C7: normalizing the normalized sequence again with the same target
\* gives the normalized sequence.
C7_Idempotent ==
    normPc \in {"liveAgain", "batchAgain"} => renormalized = normalized

\* a padded sequence has been normalized a second time
C7_Witness ==
    /\ normPc = "batchAgain"
    /\ targetLen = MAX_SEQ_LEN
    /\ Len(rawSequence) \in 1..(MAX_SEQ_LEN - 1)

\* C8: the step in which handleTranslate normalizes the live accumulator
\* leaves the accumulator as it was.
C8_AccumulatorUntouched ==
    [][(translation.pc = "idle" /\ translation'.pc = "fetch"
            /\ translation'.path = "live")
        => realtimeLandmarks' = realtimeLandmarks]_vars

\* C9: no sampling timer of the Live Extractor is running while a run of
\* extractLandmarksFromVideo is in progress.
C9_PipelinesExclusive ==
    ~(liveIntervals # {} /\ batch.pc \in {"init", "seek", "detect"})

\* C10: a translation that uses the live accumulator finds in it only
\* frames sampled during the recording that produced the selected clip, and
\* no recording is still running.
C10_AccumulatorMatchesClip ==
    translation.path = "live"
        => /\ translation.clip # NoFile
           /\ translation.clip[1] = "rec"
           /\ translation.liveSources \subseteq {translation.clip[2]}
           /\ ~translation.stillRecording

\* C11: at most one sampling interval of the Live Extractor exists in every
\* reachable state, and none exists while no interval id is stored (after
\* stopRealtimeLandmarkExtraction, or before the first start).
C11_SingleSamplingInterval ==
    /\ Cardinality(liveIntervals) <= 1
    /\ (landmarkExtractionIntervalRef = 0 => liveIntervals = {})

\* C12: whenever isRecording is false (no recording yet, or the recording
\* was stopped by the user, by the auto-stop, or abandoned by resetState via
\* a mode button), the countdown interval and the auto-stop timeout are not
\* pending and remainingSeconds is 0.
C12_NoTimersWhenNotRecording ==
    (mounted /\ ~isRecording)
        => /\ countdownTimerRef = 0
           /\ timeoutPending = 0
           /\ remainingSeconds = 0

\* C14: in upload mode the selected clip is never a recording: after the
\* switch to upload no clip is selected until the user picks a file, and a
\* recording that was running at the switch does not become the selection.
C14_NoRecordedClipInUploadMode ==
    (mounted /\ inputMode = "upload") => file \in {NoFile, UploadedFile}

\* C13: a recording the user does not stop is stopped by the auto-stop
\* timeout: the step in which the pending timeout of a recording in progress
\* fires leaves isRecording false and the recorder inactive.
C13_AutoStopEndsRecording ==
    [][(mounted /\ mounted' /\ isRecording
            /\ timeoutPending # 0 /\ timeoutPending' = 0)
        => /\ ~isRecording'
           /\ mediaRecorderRef' # 0
           /\ recorders'[mediaRecorderRef'].state = "inactive"]_vars

C19_JsonErrorFieldShown ==
    [][(mounted /\ translation.pc = "errorText" /\ translation'.pc = "idle"
            /\ translation.response.json)
        => /\ error'.prefix # "Server error: "
           /\ (translation.response.error # ""
                   => error' = Msg(translation.response.error))]_vars

\* C20: a non-2xx response whose body is not JSON makes the run fail with
\* the message "Server error: " + the first 100 characters of the body +
\* "...": the error is set, no result is shown and no history entry is made.
C20_NonJsonBodyMessage ==
    [][(mounted /\ translation.pc = "errorText" /\ translation'.pc = "idle"
            /\ ~translation.response.json)
        => LET text == translation.response.text IN
           /\ error'.prefix = "Server error: "
           /\ error'.chars = [i \in 1..Min(100, Len(text)) |-> text[i]]
           /\ error'.suffix = "..."
           /\ results' = NoResults
           /\ translationHistory' = translationHistory
           /\ storage' = storage
           /\ ~isProcessing']_vars

\* a run has failed on a non-JSON body of more than 100 characters
C20_Witness ==
    /\ mounted /\ translation.pc = "idle"
    /\ error.prefix = "Server error: "
    /\ Len(error.chars) = 100
    /\ results = NoResults

\* C15: after a record-mode translation has completed, the startCamera call
\* made by its finally block, when its acquisition succeeds and the call
\* runs to its end, leaves isCameraActive true with a live stream stored.
C15_CameraRestartedLive ==
    [][(mounted
            /\ \/ /\ camPending'[<<"translate", "getUserMedia">>]
                        < camPending[<<"translate", "getUserMedia">>]
                  /\ camPending'[<<"translate", "waitVideo">>]
                        = camPending[<<"translate", "waitVideo">>]
                  /\ Len(streams') > Len(streams)
               \/ camPending'[<<"translate", "waitVideo">>]
                        < camPending[<<"translate", "waitVideo">>])
        => /\ isCameraActive'
           /\ streamRef' # 0
           /\ streams'[streamRef']]_vars

\* C16: when the input mode was changed to upload while a translation was
\* processing, the completion of that translation starts no camera
\* acquisition and leaves isCameraActive false.
C16_NoRestartAfterSwitchToUpload ==
    [][(mounted /\ translation.pc # "idle" /\ translation'.pc = "idle"
            /\ translation.inputMode = "record" /\ inputMode = "upload")
        => /\ camPending' = camPending
           /\ ~isCameraActive']_vars

\* C21: the history in memory is newest first and never longer than 10, and
\* equals the list in storage, after the load at mount and any translations,
\* deletions and clears; a successful translation puts its record first in
\* front of the (at most 9) newest records there were, dropping the oldest
\* of a list of 10.
C21_HistoryNewestFirstCapped ==
    /\ [](mounted =>
            /\ Len(translationHistory) <= 10
            /\ \A i, j \in 1..Len(translationHistory) :
                   i < j => translationHistory[i].id > translationHistory[j].id
            /\ storage = translationHistory)
    /\ [][(mounted /\ translation.pc = "fetch" /\ results' # NoResults)
            => /\ translationHistory'[1] = [id |-> now', clip |-> translation.clip]
               /\ Tail(translationHistory')
                      = SubSeq(translationHistory, 1,
                               Min(9, Len(translationHistory)))]_vars

\* a translation has succeeded on a history of 10: the oldest record is gone
C21_Witness ==
    /\ mounted
    /\ Len(translationHistory) = 10
    /\ translationHistory[1].id = 11
    /\ translationHistory[10].id = 2
    /\ storage = translationHistory

\* C22: a call of translate while no clip is selected sets the no-input
\* error and changes nothing else: isProcessing stays false, progress,
\* results, log and history stay as they are, the camera is not stopped and
\* no extraction and no request is started.
C22_NoInputFailsFast ==
    [][(mounted /\ file = NoFile /\ error # noInputMessage
            /\ error' = noInputMessage)
        => /\ ~isProcessing /\ ~isProcessing'
           /\ translation' = NoTranslation
           /\ batch'.pc \notin {"init", "seek", "detect"}
           /\ requestFrames' = <<>>
           /\ UNCHANGED <<mounted, inputMode, file, videoSrc>>
           /\ UNCHANGED <<camVars, handsVars, recVars, timerVars, liveVars,
                          transVars, outVars>>]_vars

\* translate was called in record mode with the camera running and no clip
C22_Witness ==
    /\ mounted /\ file = NoFile
    /\ error = Msg("Please record a video first")
    /\ isCameraActive /\ streamRef # 0 /\ streams[streamRef]
    /\ ~isProcessing

\* C23: a translate call takes the live accumulator and starts no run of the
\* Batch Extractor exactly when the mode is record and the accumulator is not
\* empty; otherwise it starts one run on the selected clip.  A run starts
\* only there, so a translation on the batch path has had exactly one run,
\* finished, when its request is out, and one on the live path has none.
C23_LivePathExactlyWhen ==
    /\ [][(mounted /\ translation.pc = "idle" /\ translation'.pc # "idle")
            => IF inputMode = "record" /\ numPoints(realtimeLandmarks) > 0
               THEN /\ translation'.path = "live"
                    /\ translation'.pc = "fetch"
                    /\ batch' = batch
               ELSE /\ translation'.path = "batch"
                    /\ translation'.pc = "extract"
                    /\ translation'.clip = videoSrc
                    /\ batch' = [NoBatch EXCEPT !.pc = "init"]]_vars
    /\ [][(batch'.pc = "init" /\ batch' # batch) => translation.pc = "idle"]_vars
    /\ [](translation.path = "live" => batch.pc \notin {"init", "seek", "detect"})
    /\ []((translation.path = "batch" /\ translation.pc \in {"fetch", "errorText"})
            => (batch.pc = "done" /\ batch.closed))
    /\ []((translation.path = "batch" /\ translation.pc = "extract")
            => batch.pc \in {"init", "seek", "detect"})

\* the request of a live-path translation is out and no batch run was made
C23_Witness ==
    /\ translation.path = "live" /\ translation.pc = "fetch"
    /\ translation.inputMode = "record"
    /\ batch.pc = "off"
    /\ requestFrames # <<>>

\* C24: in a run of the Batch Extractor the frame with index i is submitted
\* only when the callbacks of the i frames before it have appended their
\* frames, one submission at a time, so the raw sequence holds the frames in
\* the order of their indices.
C24_OneDetectionInFlight ==
    /\ [](batch.pc \in {"seek", "detect"}
            => /\ Len(batch.landmarksList) = batch.i
               /\ \A k \in 1..Len(batch.landmarksList) :
                      \E src \in 100..110 :
                          batch.landmarksList[k] = FrameOf(src, k))
    /\ [][(batch.pc = "seek" /\ batch'.pc = "detect")
            => /\ Len(batch.landmarksList) = batch.i
               /\ batch' = [batch EXCEPT !.pc = "detect"]]_vars
    /\ [][(batch.pc = "detect" /\ batch'.pc = "seek")
            => /\ batch'.i = batch.i + 1
               /\ batch'.landmarksList =
                      Append(batch.landmarksList,
                             FrameOf(ClipSource(videoSrc), batch.i + 1))]_vars

\* the second frame is submitted after the first frame was appended
C24_Witness ==
    /\ batch.pc = "detect" /\ batch.i = 1
    /\ batch.landmarksList = <<FrameOf(ClipSource(videoSrc), 1)>>

\* C25: a run of the Batch Extractor on a loaded clip makes exactly
\* totalFrames = floor(duration * fps) submissions and then completes: at
\* every point of its frame loop totalFrames is that number, and the number
\* of submissions still to make, totalFrames - i, is positive and finite.
C25_RunEndsAfterTotalFrames ==
    batch.pc \in {"seek", "detect"}
        => /\ batch.totalFrames = totalFramesOf(batch.duration)
           /\ batch.i < batch.totalFrames
           /\ \E left \in 1..(MaxClipFrames + 1) :
                  batch.i + left = batch.totalFrames

\* C26: the step in which a run of the Batch Extractor fails (detector
\* initialization, metadata, seek or detection) ends the translation with
\* one failure: the error is set, the processing flag is cleared, nothing of
\* the sequence collected so far is kept and no request is sent.
C26_BatchFailureFailsTranslation ==
    [][(mounted /\ batch.pc \in {"init", "seek", "detect"}
            /\ batch'.pc \in {"failed", "hung"})
        => /\ translation'.pc = "idle"
           /\ ~isProcessing'
           /\ error' # NoError
           /\ batch'.landmarksList = <<>>
           /\ requestFrames' = <<>>]_vars

\* C27: at most one live detector instance is ever created in the lifetime
\* of the component, overlapping calls of
\* initializeRealtimeLandmarkExtraction included, and after teardown no
\* instance is left stored (it was closed).
C27_LiveDetectorSingleton ==
    /\ hands.created <= 1
    /\ (~mounted => mediapipeHandsRef = 0)

\* C28: every step on which a recording starts (isRecording becomes true)
\* leaves the live accumulator empty and a sampling interval running for that
\* recording, and while a recording runs the accumulator holds no frame
\* sampled for an earlier recording.
C28_RecordingStartsFresh ==
    /\ [][(~isRecording /\ isRecording')
            => /\ realtimeLandmarks' = <<>>
               /\ landmarkExtractionIntervalRef' = mediaRecorderRef'
               /\ mediaRecorderRef' \in liveIntervals']_vars
    /\ [](isRecording
            => realSources(unpacked(realtimeLandmarks)) \subseteq {mediaRecorderRef})

\* C29: the step in which a camera acquisition fails (a pending getUserMedia
\* call ends without a stream) leaves a camera that was not active inactive,
\* sets the camera error while the component is mounted, and starts no
\* other acquisition.
C29_CameraFailureReturnsToIdle ==
    [][(/\ \E caller \in {"effect", "translate"} :
               camPending'[<<caller, "getUserMedia">>]
                   < camPending[<<caller, "getUserMedia">>]
        /\ streams' = streams)
        => /\ (~isCameraActive => ~isCameraActive')
           /\ (mounted => error' = Msg("camera"))
           /\ streamRef' = streamRef
           /\ \A k \in CallKinds : camPending'[k] <= camPending[k]]_vars

C29_Witness ==
    /\ mounted
    /\ error = Msg("camera")
    /\ ~isCameraActive
    /\ camPending = NoCamCalls
    /\ streams = <<>>

\* C30: a call of startRecording that fails (no stream is stored, the
\* recorder cannot be constructed, or its start() throws) leaves isRecording
\* false, creates no countdown interval and no auto-stop timeout, leaves the
\* Live Extractor as it was (accumulator and sampling intervals), and sets
\* an error.
C30_FailedStartNeverRecords ==
    [][(StartRecordingNoStream \/ StartRecordingCtorFails
            \/ StartRecordingStartFails)
        => /\ ~isRecording'
           /\ UNCHANGED <<countdownTimerRef, recordingTimeoutRef, timeoutPending>>
           /\ UNCHANGED <<liveIntervals, landmarkExtractionIntervalRef,
                          realtimeLandmarks>>
           /\ \A r \in 1..Len(recorders') : r > Len(recorders)
                  => recorders'[r].state = "inactive"
           /\ error' # NoError]_vars

C30_Witness ==
    /\ error = Msg("startFailed")
    /\ mediapipeHandsRef # 0
    /\ mediaRecorderRef # 0
    /\ recorders[mediaRecorderRef].state = "inactive"
    /\ ~isRecording
    /\ countdownTimerRef = 0
    /\ timeoutPending = 0
    /\ liveIntervals = {}

\* C31: the frame encoded from a result without hands (the properties
\* absent, or the lists empty) has 126 values, all 0; and in every encoded
\* frame a slot whose label no detected hand carries holds 21 zero points.
C31_UnmatchedSlotsAreZero ==
    normPc = "encoded"
        => LET points == unpacked(encoded)
               hasHands == /\ defined(handsResults, "multiHandLandmarks")
                           /\ defined(handsResults, "multiHandedness")
               labels == IF hasHands
                         THEN {handsResults.multiHandedness[i].label :
                                  i \in 1..Len(handsResults.multiHandedness)}
                         ELSE {}
           IN  /\ Len(points) = 2 * NUM_KEYPOINTS
               /\ (~hasHands \/ handsResults.multiHandLandmarks = <<>>)
                      => flat(encoded) = [i \in 1..(6 * NUM_KEYPOINTS) |-> 0]
               /\ "Left" \notin labels
                      => \A j \in 1..NUM_KEYPOINTS : points[j] = <<0, 0, 0>>
               /\ "Right" \notin labels
                      => \A j \in 1..NUM_KEYPOINTS :
                             points[NUM_KEYPOINTS + j] = <<0, 0, 0>>

C31_Witness ==
    /\ normPc = "encoded"
    /\ handsResults = NoHandsResults
    /\ Len(flat(encoded)) = 6 * NUM_KEYPOINTS

\* C32: the frame encoded from a result with two hands, one labelled Left
\* and one labelled Right, holds the 21 points of the Left hand in its first
\* slot and those of the Right hand in its second slot, whichever of the two
\* comes first; the result with the two hands swapped encodes to the same
\* frame.
C32_SlotsFollowLabels ==
    (/\ normPc = "encoded"
     /\ defined(handsResults, "multiHandedness")
     /\ Len(handsResults.multiHandedness) = 2
     /\ {handsResults.multiHandedness[i].label : i \in 1..2} = {"Left", "Right"})
        => LET points == unpacked(encoded)
               at(label) == CHOOSE i \in 1..2 :
                                handsResults.multiHandedness[i].label = label
               lm(label, j) == handsResults.multiHandLandmarks[at(label)][j]
           IN  /\ \A j \in 1..NUM_KEYPOINTS :
                      /\ points[j] = <<lm("Left", j).x, lm("Left", j).y, lm("Left", j).z>>
                      /\ points[NUM_KEYPOINTS + j]
                             = <<lm("Right", j).x, lm("Right", j).y, lm("Right", j).z>>
               /\ encoded = extractTwoHandLandmarks(reversedHands(handsResults))

C32_Witness ==
    /\ normPc = "encoded"
    /\ handsResults = ResultsOf(<<(<<"Right", 1>>), (<<"Left", 2>>)>>)
    /\ unpacked(encoded)[1] = <<1, 2, 1>>
    /\ unpacked(encoded)[NUM_KEYPOINTS + 1] = <<1, 1, 1>>

\* C33: in the frame encoded from a result in which a label (Left or Right)
\* occurs more than once, the slot of that label holds the points of the
\* last hand carrying it, and the other slot holds what the hands of the
\* other label alone decide: the last of them, or zeros when there is none.
C33_LastOfALabelWins ==
    (normPc = "encoded" /\ defined(handsResults, "multiHandedness"))
        => LET points == unpacked(encoded)
               n == Len(handsResults.multiHandedness)
               with(label) == {i \in 1..n :
                                  handsResults.multiHandedness[i].label = label}
               last(label) == CHOOSE i \in with(label) :
                                  \A k \in with(label) : k <= i
               expected(label, j) ==
                   IF with(label) = {} THEN <<0, 0, 0>>
                   ELSE LET lm == handsResults.multiHandLandmarks[last(label)][j]
                        IN  <<lm.x, lm.y, lm.z>>
           IN  (\E label \in {"Left", "Right"} : Cardinality(with(label)) > 1)
                   => \A j \in 1..NUM_KEYPOINTS :
                          /\ points[j] = expected("Left", j)
                          /\ points[NUM_KEYPOINTS + j] = expected("Right", j)

C33_Witness ==
    /\ normPc = "encoded"
    /\ handsResults = ResultsOf(<<(<<"Left", 1>>), (<<"Left", 2>>)>>)
    /\ unpacked(encoded)[1] = <<1, 2, 1>>
    /\ unpacked(encoded)[NUM_KEYPOINTS + 1] = <<0, 0, 0>>

\* C34: at any time at most one of the streams acquired so far has live
\* tracks.
C34_OneLiveStream ==
    Cardinality({i \in 1..Len(streams) : streams[i]}) <= 1

\* C35: at any time at most one of the media recorders created so far is
\* in a state other than inactive.
C35_OneActiveRecorder ==
    Cardinality({r \in 1..Len(recorders) : recorders[r].state # "inactive"}) <= 1

\* C36: a user action made while a translation is processing, teardown
\* apart, changes neither inputMode nor file, clears nothing that resetState
\* clears (error, results, log, processing video), stops no camera track and
\* leaves isCameraActive alone, and creates no recorder and starts no
\* recording.
C36_ProcessingDisablesInput ==
    [][(isProcessing /\ mounted' /\ userActions' # userActions)
        => /\ UNCHANGED <<inputMode, file>>
           /\ UNCHANGED <<error, results, extractionLog, videoSrc>>
           /\ UNCHANGED <<streams, isCameraActive>>
           /\ UNCHANGED <<recorders, mediaRecorderRef>>
           /\ (isRecording' => isRecording)]_vars

C36_Witness ==
    /\ isProcessing
    /\ mounted
    /\ userActions < MaxUserActions
    /\ inputMode = "record"
    /\ file # NoFile
    /\ translation.pc # "idle"

\* C37: while the component is mounted a translation is in flight (being
\* extracted, requested or read) only while isProcessing is set, and a user
\* action made while isProcessing is set starts no extraction and no
\* request: the translation, the batch run and the request in flight are
\* left as they are.
C37_OneTranslationInFlight ==
    /\ []((mounted /\ (translation.pc # "idle"
                          \/ batch.pc \in {"init", "seek", "detect", "hung"}))
            => isProcessing)
    /\ [][(isProcessing /\ mounted' /\ userActions' # userActions)
            => UNCHANGED <<translation, batch, requestFrames>>]_vars

C37_Witness ==
    /\ mounted
    /\ isProcessing
    /\ translation.pc = "fetch"
    /\ file # NoFile
    /\ userActions < MaxUserActions

\* C38: for N > T > 1 the source indices floor(i * (N - 1) / (T - 1)),
\* i = 0..T-1, lie in 0..N-1 and increase strictly, and the truncated
\* sequence is the raw frames at those indices: T frames in their temporal
\* order, no source frame taken twice.
C38_TruncationIndicesIncrease ==
    (normPc \in {"live", "batch"} /\ Len(rawSequence) > targetLen /\ targetLen > 1)
        => LET N == Len(rawSequence)
               idx(i) == truncateIdx(i, N, targetLen)
           IN  /\ Len(normalized) = targetLen
               /\ \A i \in 0..(targetLen - 1) :
                      /\ idx(i) \in 0..(N - 1)
                      /\ (i > 0 => idx(i - 1) < idx(i))
                      /\ normalized[i + 1] = rawSequence[idx(i) + 1]
               /\ \A i, j \in 1..targetLen :
                      i < j => normalized[i] # normalized[j]

\* the live path has truncated the longest raw sequence to three frames
C38_Witness ==
    /\ normPc = "live"
    /\ targetLen = 3
    /\ Len(rawSequence) = MaxRawLen
    /\ normalized = <<rawSequence[1], rawSequence[(MaxRawLen - 1) \div 2 + 1],
                      rawSequence[MaxRawLen]>>

====
